---- MODULE Spec2Model ----
(***************************************************************************)
(* LocalFileStore, the local file system image storage adapter             *)
(* (core/server/adapters/storage/LocalFileStorage.js), as a state machine. *)
(*                                                                         *)
(* A path string is a sequence of characters drawn from Tok: "a" is an     *)
(* ordinary name character, ".." the two dots, "/" and "\\" the slash and  *)
(* the backslash.  A location of the file system is the sequence of the    *)
(* names on the way from the file system root to it.  The host is POSIX    *)
(* (sep = "/") or Windows (sep = "\\", where "/" separates as well).       *)
(***************************************************************************)
EXTENDS Integers, Sequences, FiniteSets, TLC

VARIABLES sep, denied, files, dirs, call, rawAt, saved, procs, log

vars == <<sep, denied, files, dirs, call, rawAt, saved, procs, log>>

\* Longest caller-supplied path string, in characters.
MaxLen == 3
\* Longest name of a directory entry the file system accepts (NAME_MAX).
NameMax == 2
\* Most files the adapter stores in one behaviour, and most of them by saveRaw.
MaxFiles == 2
MaxRaw == 1
\* Most calls of one behaviour of the step-level machine.
MaxCalls == 3

Tok == {"a", "..", "/", "\\"}
Strings == UNION {[1..n -> Tok] : n \in 0..MaxLen}
Bytes == {1, 2}

Front(s) == SubSeq(s, 1, Len(s) - 1)
Last(s) == s[Len(s)]
Range(s) == {s[i] : i \in 1..Len(s)}
IsPrefix(p, s) == Len(p) <= Len(s) /\ SubSeq(s, 1, Len(p)) = p

-----------------------------------------------------------------------------
(* The host's path module.                                                 *)

Seps == IF sep = "\\" THEN {"/", "\\"} ELSE {"/"}

\* The pieces of a path string between its separators, empty ones included.
RECURSIVE Split(_)
Split(s) ==
    IF s = <<>> THEN << <<>> >>
    ELSE LET r == Split(Front(s))
         IN  IF Last(s) \in Seps THEN Append(r, <<>>)
             ELSE [r EXCEPT ![Len(r)] = Append(@, Last(s))]

\* Normalisation: empty pieces vanish and ".." steps to the parent.
RECURSIVE Resolve(_, _)
Resolve(base, pieces) ==
    IF pieces = <<>> THEN base
    ELSE LET p == Head(pieces)
             b == IF p = <<>> THEN base
                  ELSE IF p = <<"..">> THEN (IF base = <<>> THEN base ELSE Front(base))
                  ELSE Append(base, p)
         IN  Resolve(b, Tail(pieces))

\* path.join(dir, rel) for an absolute directory: the location, and whether the
\* normalised string keeps a trailing separator.
pathJoin(dir, rel) ==
    LET segs == Resolve(dir, Split(rel))
    IN  [segs |-> segs,
         trail |-> rel # <<>> /\ Last(rel) \in Seps /\ segs # <<>>]

\* path.dirname: the parent, a trailing separator ignored.
pathDirname(p) == IF p.segs = <<>> THEN <<>> ELSE Front(p.segs)

\* The characters of the names of a relative location, joined by the separator.
RECURSIVE Flatten(_)
Flatten(segs) ==
    IF segs = <<>> THEN <<>>
    ELSE IF Len(segs) = 1 THEN segs[1]
    ELSE segs[1] \o <<sep>> \o Flatten(Tail(segs))

RECURSIVE CommonLen(_, _)
CommonLen(a, b) ==
    IF a = <<>> \/ b = <<>> \/ Head(a) # Head(b) THEN 0
    ELSE 1 + CommonLen(Tail(a), Tail(b))

\* path.relative(from, to) of two locations.
pathRelative(from, to) ==
    LET c == CommonLen(from, to)
        ups == [i \in 1..(Len(from) - c) |-> <<"..">>]
    IN  Flatten(ups \o SubSeq(to, c + 1, Len(to)))

-----------------------------------------------------------------------------
(* The file system: fs-extra's stat, readFile, mkdirs, writeFile and copy. *)

storagePath == << <<"content">>, <<"images">> >>
uploadDir == << <<"tmp">> >>
Uploads == {"u1", "u2"}
uploadPath(u) == Append(uploadDir, <<u>>)

FsErrors == {"ENOENT", "ENOTDIR", "ENAMETOOLONG", "EACCES", "EISDIR", "EEXIST"}

\* The entry a path walk ends at, from component i on: "file", "dir" or the
\* error of the first component that fails.
RECURSIVE Lookup(_, _, _, _)
Lookup(D, F, segs, i) ==
    IF i > Len(segs) THEN "dir"
    ELSE LET parent == SubSeq(segs, 1, i - 1)
             here == SubSeq(segs, 1, i)
         IN  IF denied /\ parent = storagePath THEN "EACCES"
             ELSE IF Len(segs[i]) > NameMax THEN "ENAMETOOLONG"
             ELSE IF here \in D THEN Lookup(D, F, segs, i + 1)
             ELSE IF here \in DOMAIN F
                  THEN (IF i = Len(segs) THEN "file" ELSE "ENOTDIR")
             ELSE "ENOENT"

fsStat(p) ==
    LET r == Lookup(dirs, files, p.segs, 1)
    IN  IF r = "file" /\ p.trail THEN "ENOTDIR" ELSE r

\* readFile: the bytes of a regular file, or an error code.
fsReadFile(p) ==
    LET r == fsStat(p)
    IN  IF r = "file" THEN [err |-> "", bytes |-> files[p.segs]]
        ELSE IF r = "dir"
             THEN [err |-> IF denied /\ p.segs = storagePath THEN "EACCES" ELSE "EISDIR",
                   bytes |-> 0]
        ELSE [err |-> r, bytes |-> 0]

\* mkdirs: creates the missing directories from the root down; what it created
\* before a failure stays.
RECURSIVE MkdirsFrom(_, _, _)
MkdirsFrom(D, segs, i) ==
    IF i > Len(segs) THEN [err |-> "", dirs |-> D]
    ELSE LET parent == SubSeq(segs, 1, i - 1)
             here == SubSeq(segs, 1, i)
         IN  IF denied /\ parent = storagePath THEN [err |-> "EACCES", dirs |-> D]
             ELSE IF Len(segs[i]) > NameMax THEN [err |-> "ENAMETOOLONG", dirs |-> D]
             ELSE IF here \in D THEN MkdirsFrom(D, segs, i + 1)
             ELSE IF here \in DOMAIN files
                  THEN [err |-> IF i = Len(segs) THEN "EEXIST" ELSE "ENOTDIR", dirs |-> D]
             ELSE MkdirsFrom(D \cup {here}, segs, i + 1)

fsMkdirs(d) == MkdirsFrom(dirs, d, 1)

\* The error of creating or truncating the file p, "" when it can be written.
WriteError(D, p) ==
    IF p.segs = <<>> THEN "EISDIR"
    ELSE LET parent == Front(p.segs)
             r == Lookup(D, files, parent, 1)
         IN  IF r = "file" THEN "ENOTDIR"
             ELSE IF r # "dir" THEN r
             ELSE IF denied /\ parent = storagePath THEN "EACCES"
             ELSE IF Len(Last(p.segs)) > NameMax THEN "ENAMETOOLONG"
             ELSE IF p.segs \in D THEN "EISDIR"
             ELSE IF p.trail THEN (IF p.segs \in DOMAIN files THEN "ENOTDIR" ELSE "EISDIR")
             ELSE ""

\* The files the adapter has stored: all but the uploads.
Stored(F) == DOMAIN F \ {uploadPath(u) : u \in Uploads}
Restrict(f, S) == [x \in S |-> f[x]]
\* A write that reaches every stored file.
putClobbers(F, loc, b) ==
    [l \in DOMAIN F \cup {loc} |-> IF l = loc \/ l \in Stored(F) THEN b ELSE F[l]]

Put(F, loc, b) == [l \in DOMAIN F \cup {loc} |-> IF l = loc THEN b ELSE F[l]]

\* writeFile(p, buffer) with the directories D in place.
fsWriteFile(D, p, buffer) ==
    LET e == WriteError(D, p)
    IN  [err |-> e, files |-> IF e = "" THEN Put(files, p.segs, buffer) ELSE files]

\* A move in the place of the copy: src is gone afterwards.
fsMove(D, src, dest) ==
    LET e == IF src \notin DOMAIN files THEN "ENOENT" ELSE WriteError(D, dest)
    IN  [err |-> e,
         files |-> IF e = ""
                   THEN Restrict(Put(files, dest.segs, files[src]),
                                 (DOMAIN files \cup {dest.segs}) \ {src})
                   ELSE files]

\* copy(src, dest): the bytes of src become the content of dest; src stays.
fsCopy(D, src, dest) ==
    LET e == IF src \notin DOMAIN files THEN "ENOENT" ELSE WriteError(D, dest)
    IN  [err |-> e, files |-> IF e = "" THEN Put(files, dest.segs, files[src]) ELSE files]

-----------------------------------------------------------------------------
(* Collaborators the adapter calls: the URL utilities, the base adapter's  *)
(* target-directory and unique-file-name helpers, the static-serving       *)
(* primitive.                                                              *)

STATIC_IMAGE_URL_PREFIX == <<"content", "/", "images">>
Subdirs == {<<>>, <<"blog">>}

\* urlJoin('/', subdir, prefix, rel): /[subdir/]<static-image-prefix>/<relative-path>.
urlJoin(subdir, rel) ==
    <<"/">> \o (IF subdir = <<>> THEN <<>> ELSE subdir \o <<"/">>)
            \o STATIC_IMAGE_URL_PREFIX \o <<"/">> \o rel

\* getTargetDir(baseDir): the dated subdirectory baseDir/YYYY/MM.
getTargetDir(baseDir) == baseDir \o << <<"YYYY">>, <<"MM">> >>

\* The uploaded images: two uploads named  a  with distinct content.
Images == {[id |-> "u1", name |-> <<"a">>, ext |-> <<>>],
           [id |-> "u2", name |-> <<"a">>, ext |-> <<>>]}

\* Directories a caller passes as targetDir; <<>> stands for none given.
DirOpts == {<<>>, <<Append(storagePath, <<"a">>)>>}

\* The short path strings, and the outcomes of the static-serving primitive.
ServePaths == {p \in Strings : Len(p) <= 1}
Statuses == {"", "404", "400", "403", "500"}

-----------------------------------------------------------------------------
(* The adapter's operations, each as the outcome of one call in the        *)
(* current state.                                                          *)

NoErr == [kind |-> "", wraps |-> "", code |-> "", msg |-> "", ref |-> <<>>]

Idle == [op |-> "idle", path |-> <<>>, dir |-> <<>>, img |-> "", buffer |-> 0,
         status |-> "", url |-> <<>>, bytes |-> 0, flag |-> FALSE,
         err |-> NoErr, raw |-> "", next |-> <<>>, touched |-> {}, dest |-> <<>>]

\* The replacement without the g flag: the first separator only.
replaceSepFirst(url) ==
    [i \in 1..Len(url) |->
        IF url[i] = sep /\ (\A j \in 1..(i - 1) : url[j] # sep) THEN "/" ELSE url[i]]

\* .replace(new RegExp(`\\${path.sep}`, 'g'), '/')
replaceSep(url) == [i \in 1..Len(url) |-> IF url[i] = sep THEN "/" ELSE url[i]]

saveRaw(buffer, targetPath, subdir) ==
    LET storage == pathJoin(storagePath, targetPath)
        targetDir == pathDirname(storage)
        m == fsMkdirs(targetDir)
        w == fsWriteFile(m.dirs, storage, buffer)
        fullUrl == replaceSep(urlJoin(subdir, targetPath))
    IN  IF m.err # ""
        THEN [status |-> "rejected", raw |-> m.err, url |-> <<>>, files |-> files,
              dirs |-> m.dirs, touched |-> {targetDir}, dest |-> storage.segs]
        ELSE IF w.err # ""
        THEN [status |-> "rejected", raw |-> w.err, url |-> <<>>, files |-> files,
              dirs |-> m.dirs, touched |-> {targetDir, storage.segs}, dest |-> storage.segs]
        ELSE [status |-> "ok", raw |-> "", url |-> fullUrl, files |-> w.files,
              dirs |-> m.dirs, touched |-> {targetDir, storage.segs}, dest |-> storage.segs]

\* exists with a then-branch that answers false as well.
existsNever(fileName, targetDir) ==
    LET filePath == pathJoin(IF targetDir # <<>> THEN targetDir[1] ELSE storagePath, fileName)
    IN  [status |-> "ok", flag |-> FALSE, touched |-> {filePath.segs}]

\* exists with a catch that swallows ENOENT only.
existsRethrows(fileName, targetDir) ==
    LET filePath == pathJoin(IF targetDir # <<>> THEN targetDir[1] ELSE storagePath, fileName)
        st == fsStat(filePath)
    IN  [status |-> IF st \in {"file", "dir", "ENOENT"} THEN "ok" ELSE "rejected",
         flag |-> st \in {"file", "dir"}, touched |-> {filePath.segs}]

\* exists that joins the file name with the storage root whatever targetDir is.
existsIgnoresDir(fileName, targetDir) ==
    LET filePath == pathJoin(storagePath, fileName)
    IN  [status |-> "ok", flag |-> fsStat(filePath) \in {"file", "dir"},
         touched |-> {filePath.segs}]

\* exists that answers true for directories only.
existsDirsOnly(fileName, targetDir) ==
    LET filePath == pathJoin(IF targetDir # <<>> THEN targetDir[1] ELSE storagePath, fileName)
    IN  [status |-> "ok", flag |-> fsStat(filePath) = "dir", touched |-> {filePath.segs}]

exists(fileName, targetDir) ==
    LET filePath == pathJoin(IF targetDir # <<>> THEN targetDir[1] ELSE storagePath, fileName)
    IN  [status |-> "ok", flag |-> fsStat(filePath) \in {"file", "dir"},
         touched |-> {filePath.segs}]

\* generateUnique(dir, name, ext, i): name, name-1, name-2, ... until exists
\* says the candidate is free.
RECURSIVE generateUnique(_, _, _, _)
generateUnique(dir, name, ext, i) ==
    LET append == IF i = 0 THEN <<>> ELSE <<"-" \o ToString(i)>>
        filename == name \o append \o ext
    IN  IF exists(filename, <<dir>>).flag
        THEN generateUnique(dir, name, ext, i + 1)
        ELSE Append(dir, filename)

getUniqueFileName(image, targetDir) == generateUnique(targetDir, image.name, image.ext, 0)

save(image, dirOpt, subdir) ==
    LET targetDir == IF dirOpt # <<>> THEN dirOpt[1] ELSE getTargetDir(storagePath)
        targetFilename == getUniqueFileName(image, targetDir)
        m == fsMkdirs(targetDir)
        c == fsCopy(m.dirs, uploadPath(image.id), [segs |-> targetFilename, trail |-> FALSE])
        fullUrl == replaceSep(urlJoin(subdir, pathRelative(storagePath, targetFilename)))
    IN  IF m.err # ""
        THEN [status |-> "rejected", raw |-> m.err, url |-> <<>>, files |-> files,
              dirs |-> m.dirs, touched |-> {targetDir}, dest |-> targetFilename]
        ELSE IF c.err # ""
        THEN [status |-> "rejected", raw |-> c.err, url |-> <<>>, files |-> files,
              dirs |-> m.dirs, touched |-> {targetDir, targetFilename}, dest |-> targetFilename]
        ELSE [status |-> "ok", raw |-> "", url |-> fullUrl, files |-> c.files,
              dirs |-> m.dirs, touched |-> {targetDir, targetFilename}, dest |-> targetFilename]

\* readError without the ENOTDIR case.
readErrorNoEnotdir(code, img) ==
    IF code = "ENOENT"
    THEN [kind |-> "NotFoundError", wraps |-> code, code |-> "",
          msg |-> "imageNotFoundWithRef", ref |-> img]
    ELSE IF code = "ENAMETOOLONG"
    THEN [kind |-> "BadRequestError", wraps |-> code, code |-> "", msg |-> "", ref |-> <<>>]
    ELSE IF code = "EACCES"
    THEN [kind |-> "NoPermissionError", wraps |-> code, code |-> "", msg |-> "", ref |-> <<>>]
    ELSE [kind |-> "GhostError", wraps |-> code, code |-> "",
          msg |-> "cannotReadImage", ref |-> img]

\* The error read rejects with for the file system error code.
readError(code, img) ==
    IF code \in {"ENOENT", "ENOTDIR"}
    THEN [kind |-> "NotFoundError", wraps |-> code, code |-> "",
          msg |-> "imageNotFoundWithRef", ref |-> img]
    ELSE IF code = "ENAMETOOLONG"
    THEN [kind |-> "BadRequestError", wraps |-> code, code |-> "", msg |-> "", ref |-> <<>>]
    ELSE IF code = "EACCES"
    THEN [kind |-> "NoPermissionError", wraps |-> code, code |-> "", msg |-> "", ref |-> <<>>]
    ELSE [kind |-> "GhostError", wraps |-> code, code |-> "",
          msg |-> "cannotReadImage", ref |-> img]

\* options.path with /\/$|\\$/ replaced by ''.
stripTrailing(path) ==
    IF path # <<>> /\ Last(path) \in {"/", "\\"} THEN Front(path) ELSE path

read(path) ==
    LET optionsPath == stripTrailing(path)
        targetPath == pathJoin(storagePath, optionsPath)
        r == fsReadFile(targetPath)
    IN  IF r.err # ""
        THEN [status |-> "rejected", err |-> readError(r.err, optionsPath), bytes |-> 0,
              touched |-> {targetPath.segs}]
        ELSE [status |-> "ok", err |-> NoErr, bytes |-> r.bytes,
              touched |-> {targetPath.segs}]

\* The callback with the return of its 403 branch missing: it goes on to the
\* catch-all call of next.
serveCallbackNoReturn(statusCode, errPath) ==
    LET generic == [kind |-> "GhostError", wraps |-> statusCode, code |-> "",
                    msg |-> "", ref |-> <<>>]
    IN  IF statusCode # ""
        THEN IF statusCode = "404"
             THEN << [kind |-> "NotFoundError", wraps |-> "", code |-> "STATIC_FILE_NOT_FOUND",
                      msg |-> "imageNotFound", ref |-> errPath] >>
             ELSE IF statusCode = "400"
             THEN << [kind |-> "BadRequestError", wraps |-> statusCode, code |-> "",
                      msg |-> "", ref |-> <<>>] >>
             ELSE IF statusCode = "403"
             THEN << [kind |-> "NoPermissionError", wraps |-> statusCode, code |-> "",
                      msg |-> "", ref |-> <<>>], generic >>
             ELSE << generic >>
        ELSE << NoErr >>

\* The callback serveStaticContent hands to the primitive: the calls of next
\* it makes for the primitive's err ("" for none).
serveCallback(statusCode, errPath) ==
    IF statusCode # ""
    THEN IF statusCode = "404"
         THEN << [kind |-> "NotFoundError", wraps |-> "", code |-> "STATIC_FILE_NOT_FOUND",
                  msg |-> "imageNotFound", ref |-> errPath] >>
         ELSE IF statusCode = "400"
         THEN << [kind |-> "BadRequestError", wraps |-> statusCode, code |-> "",
                  msg |-> "", ref |-> <<>>] >>
         ELSE IF statusCode = "403"
         THEN << [kind |-> "NoPermissionError", wraps |-> statusCode, code |-> "",
                  msg |-> "", ref |-> <<>>] >>
         ELSE << [kind |-> "GhostError", wraps |-> statusCode, code |-> "",
                  msg |-> "", ref |-> <<>>] >>
    ELSE << NoErr >>

\* The primitive completes with no error only for a present asset, and with
\* 404 only for a missing one (fallthrough: false).
serveStatic(reqPath, statusCode) ==
    LET present == fsStat(pathJoin(storagePath, reqPath)) = "file"
    IN  /\ statusCode = "" => present
        /\ statusCode = "404" => ~present

\* delete that removes what the adapter has stored and resolves.
deleteRemoves ==
    [status |-> "ok", raw |-> "", files |-> Restrict(files, DOMAIN files \ Stored(files)),
     dirs |-> dirs]

delete == [status |-> "rejected", raw |-> "not implemented", files |-> files, dirs |-> dirs]

-----------------------------------------------------------------------------
(* The state machine: the calls arrive one after another.                  *)

LocOf(P) == pathJoin(storagePath, P).segs

\* The calls in flight of the step-level machine, and what each has got to:
\* pc is the step the call performs next.
Procs == {1, 2}
IdleProc == [pc |-> "idle", op |-> "", path |-> <<>>, buffer |-> 0, img |-> "",
             dir |-> <<>>, i |-> 0, dest |-> [segs |-> <<>>, trail |-> FALSE],
             mark |-> 0, tried |-> <<>>]

Init ==
    /\ sep \in {"/", "\\"}
    /\ denied \in BOOLEAN
    /\ dirs = {<<>>, << <<"content">> >>, storagePath, uploadDir}
    /\ files = [l \in {uploadPath(u) : u \in Uploads} |-> IF l = uploadPath("u1") THEN 1 ELSE 2]
    /\ call = Idle
    /\ rawAt = <<>>
    /\ saved = {}
    /\ procs = [p \in Procs |-> IdleProc]
    /\ log = <<>>

\* rawAt remembers, per path string, the bytes of the last successful saveRaw
\* whose file no other call has written since; saved remembers the successful
\* saves whose file no saveRaw has written since.
SaveRawCall ==
    /\ call.op = "idle"
    /\ \E buffer \in Bytes, targetPath \in Strings, subdir \in Subdirs :
         LET r == saveRaw(buffer, targetPath, subdir)
         IN  /\ Cardinality(Stored(r.files)) <= MaxFiles
             /\ r.status = "ok" =>
                    Cardinality({LocOf(P) : P \in DOMAIN rawAt} \cup {r.dest}) <= MaxRaw
             /\ files' = r.files
             /\ dirs' = r.dirs
             /\ call' = [Idle EXCEPT !.op = "saveRaw", !.path = targetPath,
                                     !.buffer = buffer,
                                     !.status = r.status, !.raw = r.raw, !.url = r.url,
                                     !.touched = r.touched, !.dest = r.dest]
             /\ rawAt' = IF r.status = "ok"
                         THEN LET keep == {P \in DOMAIN rawAt : LocOf(P) # r.dest}
                              IN  [P \in keep \cup {targetPath} |->
                                      IF P = targetPath THEN buffer ELSE rawAt[P]]
                         ELSE rawAt
             /\ saved' = IF r.status = "ok" THEN {s \in saved : s.dest # r.dest} ELSE saved
    /\ UNCHANGED <<sep, denied, procs, log>>

SaveCall ==
    /\ call.op = "idle"
    /\ \E image \in Images, dirOpt \in DirOpts, subdir \in Subdirs :
         LET r == save(image, dirOpt, subdir)
         IN  /\ Cardinality(Stored(r.files)) <= MaxFiles
             /\ files' = r.files
             /\ dirs' = r.dirs
             /\ call' = [Idle EXCEPT !.op = "save", !.path = image.name \o image.ext,
                                     !.img = image.id, !.dir = dirOpt,
                                     !.status = r.status, !.raw = r.raw, !.url = r.url,
                                     !.touched = r.touched, !.dest = r.dest]
             /\ rawAt' = IF r.status = "ok"
                         THEN Restrict(rawAt, {P \in DOMAIN rawAt : LocOf(P) # r.dest})
                         ELSE rawAt
             /\ saved' = IF r.status = "ok"
                         THEN saved \cup {[name |-> image.name \o image.ext, dir |-> dirOpt,
                                           bytes |-> files[uploadPath(image.id)],
                                           url |-> r.url, dest |-> r.dest]}
                         ELSE saved
    /\ UNCHANGED <<sep, denied, procs, log>>

\* With a targetDir the file name is a short one, as the unique-file-name
\* helper passes it.
ExistsCall ==
    /\ call.op = "idle"
    /\ \E fileName \in Strings, targetDir \in DirOpts :
         /\ targetDir # <<>> => fileName \in ServePaths
         /\ LET r == exists(fileName, targetDir)
            IN  call' = [Idle EXCEPT !.op = "exists", !.path = fileName,
                                     !.dir = targetDir, !.status = r.status,
                                     !.flag = r.flag, !.touched = r.touched]
    /\ UNCHANGED <<sep, denied, files, dirs, rawAt, saved, procs, log>>

ReadCall ==
    /\ call.op = "idle"
    /\ \E path \in Strings :
         LET r == read(path)
         IN  call' = [Idle EXCEPT !.op = "read", !.path = path, !.status = r.status,
                                  !.err = r.err, !.bytes = r.bytes, !.touched = r.touched]
    /\ UNCHANGED <<sep, denied, files, dirs, rawAt, saved, procs, log>>

ServeCall ==
    /\ call.op = "idle"
    /\ \E reqPath \in ServePaths, statusCode \in Statuses :
         /\ serveStatic(reqPath, statusCode)
         /\ call' = [Idle EXCEPT !.op = "serve", !.path = reqPath, !.raw = statusCode,
                                 !.next = serveCallback(statusCode, reqPath)]
    /\ UNCHANGED <<sep, denied, files, dirs, rawAt, saved, procs, log>>

DeleteCall ==
    /\ call.op = "idle"
    /\ \E fileName \in ServePaths :
         LET r == delete
         IN  /\ files' = r.files
             /\ dirs' = r.dirs
             /\ call' = [Idle EXCEPT !.op = "delete", !.path = fileName,
                                     !.status = r.status, !.raw = r.raw]
    /\ UNCHANGED <<sep, denied, rawAt, saved, procs, log>>

\* The caller takes the outcome of its call; the next call may arrive.
Settle ==
    /\ call.op # "idle"
    /\ call' = Idle
    /\ UNCHANGED <<sep, denied, files, dirs, rawAt, saved, procs, log>>

Next ==
    \/ SaveRawCall
    \/ SaveCall
    \/ ExistsCall
    \/ ReadCall
    \/ ServeCall
    \/ DeleteCall
    \/ Settle

Spec == Init /\ [][Next]_vars

-----------------------------------------------------------------------------
(* The step-level state machine: up to two calls in flight, each await of  *)
(* saveRaw and save a step of its own, the file system operation of a step *)
(* atomic.  log holds the settled calls in the order they settled; tried   *)
(* holds the file system operations a call has performed, with the error   *)
(* code of each; mark is the length of log when the unique-file-name       *)
(* helper found its candidate free.                                        *)

\* The path strings the callers of the step-level machine pass.
StepPaths == {<<"a">>, <<"\\">>, <<"a", "/", "a">>, <<"..", "/", "a">>}

ImageOf(id) == CHOOSE im \in Images : im.id = id

Started == Len(log) + Cardinality({p \in Procs : procs[p].pc # "idle"})

\* A call takes the lowest free slot.
Free(p) ==
    /\ procs[p].pc = "idle"
    /\ \A q \in Procs : q < p => procs[q].pc # "idle"
    /\ Started < MaxCalls

Entry(c, status, raw, subdir, url, bytes, err) ==
    [op |-> c.op, path |-> c.path, img |-> c.img, buffer |-> c.buffer, dest |-> c.dest.segs,
     mark |-> c.mark, tried |-> c.tried, status |-> status, raw |-> raw, subdir |-> subdir,
     url |-> url, bytes |-> bytes, err |-> err]

\* What follows  await fs.mkdirs(targetDir)  that went on with every outcome.
afterMkdirsGoesOn(op, code) == IF op = "saveRaw" THEN "write" ELSE "copy"

\* What follows  await fs.mkdirs(targetDir): the rejection leaves the function.
afterMkdirs(op, code) ==
    IF code # "" THEN "rejected" ELSE IF op = "saveRaw" THEN "write" ELSE "copy"

StartSaveRaw(p) ==
    /\ Free(p)
    /\ \E buffer \in Bytes, targetPath \in StepPaths :
         LET storage == pathJoin(storagePath, targetPath)
         IN  procs' = [procs EXCEPT ![p] =
                          [IdleProc EXCEPT !.pc = "mkdirs", !.op = "saveRaw",
                                           !.path = targetPath, !.buffer = buffer,
                                           !.dest = storage, !.dir = pathDirname(storage)]]
    /\ UNCHANGED <<sep, denied, files, dirs, call, rawAt, saved, log>>

StartSave(p) ==
    /\ Free(p)
    /\ \E image \in Images, dirOpt \in DirOpts :
         procs' = [procs EXCEPT ![p] =
                      [IdleProc EXCEPT !.pc = "check", !.op = "save",
                                       !.path = image.name \o image.ext, !.img = image.id,
                                       !.dir = IF dirOpt # <<>> THEN dirOpt[1]
                                               ELSE getTargetDir(storagePath)]]
    /\ UNCHANGED <<sep, denied, files, dirs, call, rawAt, saved, log>>

\* One round of the unique-file-name helper: exists for the candidate i.
CheckStep(p) ==
    /\ procs[p].pc = "check"
    /\ LET c == procs[p]
           image == ImageOf(c.img)
           append == IF c.i = 0 THEN <<>> ELSE <<"-" \o ToString(c.i)>>
           filename == image.name \o append \o image.ext
       IN  procs' = [procs EXCEPT ![p] =
                        IF exists(filename, <<c.dir>>).flag
                        THEN [c EXCEPT !.i = c.i + 1]
                        ELSE [c EXCEPT !.pc = "mkdirs", !.mark = Len(log),
                                       !.dest = [segs |-> Append(c.dir, filename),
                                                 trail |-> FALSE]]]
    /\ UNCHANGED <<sep, denied, files, dirs, call, rawAt, saved, log>>

MkdirsStep(p) ==
    /\ procs[p].pc = "mkdirs"
    /\ LET c == procs[p]
           m == fsMkdirs(c.dir)
           t == [c EXCEPT !.tried = Append(c.tried, [step |-> "mkdirs", err |-> m.err])]
           then == afterMkdirs(c.op, m.err)
       IN  /\ dirs' = m.dirs
           /\ IF then = "rejected"
              THEN /\ procs' = [procs EXCEPT ![p] = IdleProc]
                   /\ log' = Append(log, Entry(t, "rejected", m.err, <<>>, <<>>, 0, NoErr))
              ELSE /\ procs' = [procs EXCEPT ![p] = [t EXCEPT !.pc = then]]
                   /\ log' = log
    /\ UNCHANGED <<sep, denied, files, call, rawAt, saved>>

WriteStep(p) ==
    /\ procs[p].pc = "write"
    /\ \E subdir \in Subdirs :
         LET c == procs[p]
             w == fsWriteFile(dirs, c.dest, c.buffer)
             t == [c EXCEPT !.tried = Append(c.tried, [step |-> "write", err |-> w.err])]
             fullUrl == replaceSep(urlJoin(subdir, c.path))
         IN  /\ files' = w.files
             /\ procs' = [procs EXCEPT ![p] = IdleProc]
             /\ log' = Append(log, IF w.err # ""
                                   THEN Entry(t, "rejected", w.err, <<>>, <<>>, 0, NoErr)
                                   ELSE Entry(t, "ok", "", subdir, fullUrl, c.buffer, NoErr))
    /\ UNCHANGED <<sep, denied, dirs, call, rawAt, saved>>

CopyStep(p) ==
    /\ procs[p].pc = "copy"
    /\ \E subdir \in Subdirs :
         LET c == procs[p]
             src == uploadPath(c.img)
             w == fsCopy(dirs, src, c.dest)
             t == [c EXCEPT !.tried = Append(c.tried, [step |-> "copy", err |-> w.err])]
             fullUrl == replaceSep(urlJoin(subdir, pathRelative(storagePath, c.dest.segs)))
         IN  /\ files' = w.files
             /\ procs' = [procs EXCEPT ![p] = IdleProc]
             /\ log' = Append(log, IF w.err # ""
                                   THEN Entry(t, "rejected", w.err, <<>>, <<>>, 0, NoErr)
                                   ELSE Entry(t, "ok", "", subdir, fullUrl, files[src], NoErr))
    /\ UNCHANGED <<sep, denied, dirs, call, rawAt, saved>>

\* read has one await, readFile: the call is one step.
ReadStep(p) ==
    /\ Free(p)
    /\ \E path \in StepPaths :
         LET r == read(path)
             c == [IdleProc EXCEPT !.op = "read", !.path = path]
         IN  log' = Append(log, Entry(c, r.status, "", <<>>, <<>>, r.bytes, r.err))
    /\ UNCHANGED <<sep, denied, files, dirs, call, rawAt, saved, procs>>

NextSteps ==
    \/ \E p \in Procs : StartSaveRaw(p)
    \/ \E p \in Procs : StartSave(p)
    \/ \E p \in Procs : CheckStep(p)
    \/ \E p \in Procs : MkdirsStep(p)
    \/ \E p \in Procs : WriteStep(p)
    \/ \E p \in Procs : CopyStep(p)
    \/ \E p \in Procs : ReadStep(p)

SpecSteps == Init /\ [][NextSteps]_vars

-----------------------------------------------------------------------------
(* Properties.                                                             *)

\* The entry at the location a path string names under the storage root or a
\* given directory.
BaseOf(dirOpt) == IF dirOpt # <<>> THEN dirOpt[1] ELSE storagePath
UnderRoot(l) == IsPrefix(storagePath, l)
Slashes == {"/", "\\"}

\* C1: after saveRaw(B, P) has resolved, and with no other write to the file of
\* P since, read({path: P}) resolves with exactly B.
RoundTrip ==
    (call.op = "read" /\ call.path \in DOMAIN rawAt)
        => (call.status = "ok" /\ call.bytes = rawAt[call.path])

\* C1, for the paths that end in neither a slash nor a backslash.
RoundTripNoTrailing ==
    (call.op = "read" /\ call.path \in DOMAIN rawAt /\ stripTrailing(call.path) = call.path)
        => (call.status = "ok" /\ call.bytes = rawAt[call.path])

\* C2: two saves of distinct content with the same original file name and the
\* same target directory return distinct URLs, and each destination holds the
\* content of its own source.
SaveNeverOverwrites ==
    \A s1, s2 \in saved :
        (s1 # s2 /\ s1.name = s2.name /\ s1.dir = s2.dir /\ s1.bytes # s2.bytes)
            => /\ s1.url # s2.url
               /\ s1.dest # s2.dest
               /\ s1.dest \in DOMAIN files /\ files[s1.dest] = s1.bytes
               /\ s2.dest \in DOMAIN files /\ files[s2.dest] = s2.bytes

TwoSavesDone ==
    \E s1, s2 \in saved :
        s1 # s2 /\ s1.name = s2.name /\ s1.dir = s2.dir /\ s1.bytes # s2.bytes

\* C3: exists always resolves to a boolean: true exactly when the stat of the
\* joined path succeeds, false for every stat failure; false where nothing was
\* ever written, true after a successful saveRaw or save to that path.
ExistsIsStat ==
    call.op = "exists" =>
        LET filePath == pathJoin(BaseOf(call.dir), call.path)
            st == fsStat(filePath)
        IN  /\ call.status = "ok"
            /\ call.flag \in BOOLEAN
            /\ call.flag <=> (st \in {"file", "dir"})
            /\ st \in FsErrors => ~call.flag
            /\ (filePath.segs \notin dirs /\ filePath.segs \notin DOMAIN files) => ~call.flag
            /\ (call.dir = <<>> /\ call.path \in DOMAIN rawAt) => call.flag
            /\ (\E s \in saved : s.dest = filePath.segs /\ ~filePath.trail) => call.flag

\* exists answered false because the stat was denied, or true for a file that
\* saveRaw has stored.
ExistsDeniedSeen ==
    /\ call.op = "exists"
    /\ fsStat(pathJoin(BaseOf(call.dir), call.path)) = "EACCES"
    /\ ~call.flag

ExistsAfterSaveRaw ==
    call.op = "exists" /\ call.dir = <<>> /\ call.path \in DOMAIN rawAt /\ call.flag

\* C4 (as claimed): every failure of the read is one of the four domain errors
\* by its code, and the NotFoundError names the path that was requested.
IsSubstring(x, y) == \E i \in 0..(Len(y) - Len(x)) : SubSeq(y, i + 1, i + Len(x)) = x

ReadClassifies(ref) ==
    call.op = "read" =>
        LET r == fsReadFile(pathJoin(storagePath, stripTrailing(call.path)))
        IN  /\ r.err = "" => call.status = "ok" /\ call.bytes = r.bytes /\ call.err = NoErr
            /\ r.err # "" =>
                 /\ call.status = "rejected"
                 /\ call.err.kind \in {"NotFoundError", "BadRequestError",
                                       "NoPermissionError", "GhostError"}
                 /\ call.err.wraps = r.err
            /\ r.err \in {"ENOENT", "ENOTDIR"} =>
                 call.err.kind = "NotFoundError" /\ IsSubstring(ref, call.err.ref)
            /\ r.err = "ENAMETOOLONG" => call.err.kind = "BadRequestError"
            /\ r.err = "EACCES" => call.err.kind = "NoPermissionError"
            /\ r.err \notin {"", "ENOENT", "ENOTDIR", "ENAMETOOLONG", "EACCES"} =>
                 call.err.kind = "GhostError"

ReadNamesRequestedPath == ReadClassifies(call.path)

\* C4 (amended): the same, the NotFoundError naming the requested path without
\* its one trailing slash or backslash.
ReadNamesStrippedPath == ReadClassifies(stripTrailing(call.path))

ReadNotADirectorySeen ==
    call.op = "read" /\ call.err.wraps = "ENOTDIR" /\ call.err.kind = "NotFoundError"

\* C5: the callback calls next exactly once: with no error when the primitive
\* reports none, with NotFoundError and the path for 404, BadRequestError for
\* 400, NoPermissionError for 403, GhostError wrapping the original otherwise.
ServeCallsNextOnce ==
    call.op = "serve" =>
        /\ Len(call.next) = 1
        /\ call.raw = "" => call.next[1] = NoErr
        /\ call.raw = "404" =>
             call.next[1].kind = "NotFoundError" /\ call.next[1].ref = call.path
        /\ call.raw = "400" => call.next[1].kind = "BadRequestError"
        /\ call.raw = "403" => call.next[1].kind = "NoPermissionError"
        /\ call.raw \notin {"", "404", "400", "403"} =>
             call.next[1].kind = "GhostError" /\ call.next[1].wraps = call.raw
        /\ call.raw \in {"400", "403"} => call.next[1].wraps = call.raw

ServeForbiddenSeen ==
    call.op = "serve" /\ call.raw = "403" /\ call.next[1].kind = "NoPermissionError"

\* C6: delete always rejects with 'not implemented' and changes no file and no
\* directory.
DeleteNotImplemented ==
    [][call'.op = "delete" =>
         /\ call'.status = "rejected"
         /\ call'.raw = "not implemented"
         /\ files' = files
         /\ dirs' = dirs]_vars

DeleteSeen ==
    call.op = "delete" /\ call.status = "rejected" /\ Stored(files) # {}

\* C7: every file the adapter writes lies under the storage root.
Confinement == \A l \in Stored(files) : UnderRoot(l)

\* C8 (as claimed): a stored file stays, with the bytes it has.
StoredImmutable ==
    [][\A l \in Stored(files) : l \in DOMAIN files' /\ files'[l] = files[l]]_vars

\* C8 (amended): a stored file is never removed, and its bytes change only by a
\* successful saveRaw to that very file.
StoredChangesOnlyBySaveRaw ==
    [][\A l \in Stored(files) :
          /\ l \in DOMAIN files'
          /\ files'[l] # files[l] =>
                call'.op = "saveRaw" /\ call'.status = "ok" /\ call'.dest = l]_vars

SaveBesideStored ==
    call.op = "save" /\ call.status = "ok" /\ Cardinality(Stored(files)) = 2

\* C9: a URL that saveRaw or save returns starts with "/" and holds no
\* separator of the host other than "/".
UrlForwardSlashes ==
    (call.op \in {"saveRaw", "save"} /\ call.status = "ok") =>
        /\ call.url # <<>>
        /\ call.url[1] = "/"
        /\ sep # "/" => sep \notin Range(call.url)

UrlOnWindowsSeen ==
    /\ sep = "\\"
    /\ call.op = "saveRaw" /\ call.status = "ok"
    /\ "\\" \in Range(call.path)

\* C10: a read of D followed by trailing slashes or backslashes has the outcome
\* of the read of D.
Outcome(r) == <<r.status, r.bytes, r.err.kind>>

TrailingStripped ==
    call.op = "read" =>
        \A k \in 1..Len(call.path) :
            (\A i \in (Len(call.path) - k + 1)..Len(call.path) : call.path[i] \in Slashes)
                => Outcome(read(SubSeq(call.path, 1, Len(call.path) - k))) = Outcome(call)

-----------------------------------------------------------------------------
(* Properties of the step-level machine.                                   *)

Wrote(e) == e.op \in {"saveRaw", "save"} /\ e.status = "ok"
\* No call settled after the j-th and up to the k-th has written the file loc.
Untouched(loc, j, k) == \A n \in (j + 1)..k : ~(Wrote(log[n]) /\ log[n].dest = loc)

TwiceSaved(i, j) ==
    /\ i < j
    /\ log[i].op = "saveRaw" /\ log[i].status = "ok"
    /\ log[j].op = "saveRaw" /\ log[j].status = "ok"
    /\ log[i].path = log[j].path /\ log[i].buffer # log[j].buffer

\* C11: after saveRaw(B1, P) and then saveRaw(B2, P) have both succeeded, the
\* file of P holds B2 for as long as nothing else writes it, and every
\* read({path: P}) in that time resolves with B2.
LastWriteWins ==
    \A i, j \in 1..Len(log) :
        TwiceSaved(i, j) =>
            /\ Untouched(log[j].dest, j, Len(log)) =>
                   (log[j].dest \in DOMAIN files /\ files[log[j].dest] = log[j].buffer)
            /\ \A k \in (j + 1)..Len(log) :
                   (log[k].op = "read" /\ log[k].path = log[j].path
                    /\ Untouched(log[j].dest, j, k))
                       => (log[k].status = "ok" /\ log[k].bytes = log[j].buffer)

\* C11 for the paths that end in neither a slash nor a backslash.
LastWriteWinsNoTrailing ==
    \A i, j \in 1..Len(log) :
        TwiceSaved(i, j) =>
            /\ Untouched(log[j].dest, j, Len(log)) =>
                   (log[j].dest \in DOMAIN files /\ files[log[j].dest] = log[j].buffer)
            /\ \A k \in (j + 1)..Len(log) :
                   (log[k].op = "read" /\ log[k].path = log[j].path
                    /\ stripTrailing(log[k].path) = log[k].path
                    /\ Untouched(log[j].dest, j, k))
                       => (log[k].status = "ok" /\ log[k].bytes = log[j].buffer)

SameDest(i, j) ==
    /\ i < j
    /\ log[i].op = "save" /\ log[i].status = "ok"
    /\ log[j].op = "save" /\ log[j].status = "ok"
    /\ log[i].dest = log[j].dest

\* C12: two saves come to the same destination by the check-then-write race,
\* and only by it: both have the same original file name, the later one found
\* the candidate free before the earlier one copied, both return the same
\* PublicURL (for one site subdirectory), and the file holds the content of
\* the later copy.
SaveRace ==
    \A i, j \in 1..Len(log) :
        SameDest(i, j) =>
            /\ log[i].path = log[j].path
            /\ log[j].mark < i
            /\ log[i].subdir = log[j].subdir => log[i].url = log[j].url
            /\ Untouched(log[j].dest, j, Len(log)) =>
                   (log[j].dest \in DOMAIN files /\ files[log[j].dest] = log[j].bytes)

\* Two saves of different content have returned the same PublicURL and the
\* content of the first is in no stored file.
SaveRaceSeen ==
    \E i, j \in 1..Len(log) :
        /\ SameDest(i, j)
        /\ log[i].url = log[j].url
        /\ log[i].bytes # log[j].bytes
        /\ files[log[j].dest] = log[j].bytes
        /\ \A l \in Stored(files) : files[l] # log[i].bytes

\* The call of log[j] is the only one that has written its destination.
OwnDest(j) ==
    /\ Wrote(log[j])
    /\ \A n \in 1..Len(log) : (n # j /\ Wrote(log[n])) => log[n].dest # log[j].dest

\* The PublicURL of the destination of e.
OwnUrl(e) ==
    replaceSep(urlJoin(e.subdir, IF e.op = "saveRaw" THEN e.path
                                 ELSE pathRelative(storagePath, e.dest)))

DestsHoldOwn ==
    \A j \in 1..Len(log) :
        OwnDest(j) => /\ log[j].dest \in DOMAIN files
                      /\ files[log[j].dest] = log[j].bytes
                      /\ log[j].bytes = IF log[j].op = "saveRaw" THEN log[j].buffer
                                        ELSE files[uploadPath(log[j].img)]
                      /\ log[j].url = OwnUrl(log[j])

\* The step that settles the write call of p does to the file system, and
\* gives the caller, what the whole call made at that moment would.
AsOneCall(p) ==
    LET c == procs[p]
        e == log'[Len(log')]
        r == IF c.op = "saveRaw" THEN saveRaw(c.buffer, c.path, e.subdir)
             ELSE save(ImageOf(c.img), <<c.dir>>, e.subdir)
    IN  (/\ c.pc \in {"mkdirs", "write", "copy"}
         /\ procs'[p].pc = "idle"
         /\ c.op = "save" => c.dest.segs \notin DOMAIN files)
            => [r EXCEPT !.touched = {}] =
                   [status |-> e.status, raw |-> e.raw, url |-> e.url, files |-> files',
                    dirs |-> dirs', touched |-> {}, dest |-> e.dest]

TriedInOrder(op, tried) ==
    /\ Len(tried) \in 1..2
    /\ tried[1].step = "mkdirs"
    /\ Len(tried) = 2 => /\ tried[1].err = ""
                         /\ tried[2].step = IF op = "saveRaw" THEN "write" ELSE "copy"

FailuresPropagate ==
    /\ \A j \in 1..Len(log) :
         LET e == log[j]
             last == e.tried[Len(e.tried)]
         IN  e.op \in {"saveRaw", "save"} =>
                 /\ TriedInOrder(e.op, e.tried)
                 /\ e.status = "rejected" <=> last.err # ""
                 /\ e.status = "rejected" =>
                        /\ e.raw = last.err /\ e.raw \in FsErrors
                        /\ e.err = NoErr
                        /\ e.url = <<>>
    /\ \A p \in Procs :
         procs[p].pc \in {"write", "copy"} => procs[p].tried = <<[step |-> "mkdirs", err |-> ""]>>

\* No step removes a directory or a file, and a step that ends a call in a
\* rejection changes no file.
NothingRemoved ==
    /\ dirs \subseteq dirs'
    /\ DOMAIN files \subseteq DOMAIN files'
    /\ (Len(log') > Len(log) /\ log'[Len(log')].status = "rejected") => files' = files

\* C14: a failure of mkdirs, writeFile or copy ends the call at once: the
\* write or copy is not attempted after a failed mkdirs, nothing is attempted
\* twice, the call rejects with the file system's own error and without a
\* PublicURL, and nothing that exists is removed.
WriteFailuresPropagate == []FailuresPropagate /\ [][NothingRemoved]_vars

\* One call has failed in mkdirs and another in writeFile or copy, and what an
\* earlier call stored is still there.
WriteFailuresSeen ==
    /\ \E j \in 1..Len(log) :
         log[j].op \in {"saveRaw", "save"} /\ log[j].status = "rejected" /\ Len(log[j].tried) = 1
    /\ \E j \in 1..Len(log) :
         log[j].op \in {"saveRaw", "save"} /\ log[j].status = "rejected" /\ Len(log[j].tried) = 2
    /\ \E j \in 1..Len(log) : Wrote(log[j]) /\ log[j].dest \in DOMAIN files

-----------------------------------------------------------------------------
(* Properties of save's source file, and of the URLs returned.             *)

\* C15: save copies and does not move: a save call, resolved or rejected,
\* leaves every upload, the source image.path among them, in place with the
\* bytes it had.
SaveKeepsSource ==
    [][call'.op = "save" =>
          \A u \in Uploads : /\ uploadPath(u) \in DOMAIN files'
                             /\ files'[uploadPath(u)] = files[uploadPath(u)]]_vars

\* A save has resolved: its destination and its source hold the same bytes.
SaveCopied ==
    /\ call.op = "save" /\ call.status = "ok"
    /\ uploadPath(call.img) \in DOMAIN files
    /\ files[call.dest] = files[uploadPath(call.img)]

\* The path a PublicURL encodes, relative to the storage root.
UrlPath(e) == SubSeq(e.url, Len(urlJoin(e.subdir, <<>>)) + 1, Len(e.url))

\* C16: each PublicURL that has been returned corresponds to a file that
\* exists under the storage root at the relative path the URL encodes.
ReturnedUrlHasFile ==
    \A j \in 1..Len(log) :
        Wrote(log[j]) => /\ LocOf(UrlPath(log[j])) \in DOMAIN files
                         /\ UnderRoot(LocOf(UrlPath(log[j])))

\* C16 for the calls whose destination is under the storage root.
ReturnedUrlHasFileInside ==
    \A j \in 1..Len(log) :
        (Wrote(log[j]) /\ UnderRoot(log[j].dest))
            => /\ LocOf(UrlPath(log[j])) = log[j].dest
               /\ log[j].dest \in DOMAIN files

====
